---- MODULE Spec2Model ----
(***************************************************************************)
(* A model of google-api-agent.py: module start-up (key lookup, endpoint   *)
(* construction), get_ai_response (one HTTP POST and the decoding of its   *)
(* reply) and the interactive read-eval-print loop.                        *)
(*                                                                         *)
(* Python strings that the program inspects character by character (the    *)
(* input line) are sequences of one-character strings; strings it only     *)
(* concatenates and prints are TLA+ strings.                               *)
(***************************************************************************)
EXTENDS Integers, Sequences, FiniteSets, TLC

(***************************************************************************)
(* Bounds of the model.                                                    *)
(***************************************************************************)
\* lines read from standard input before it reaches end-of-file
MaxTurns == 2
\* blanks put around a word of an input line (left + right)
MaxPad == 1
\* candidates in a response body
MaxCandidates == 2
\* content parts in the first candidate
MaxParts == 2

(***************************************************************************)
(* Python values.                                                          *)
(***************************************************************************)
None == [isNone |-> TRUE, str |-> "None"]
Str(s) == [isNone |-> FALSE, str |-> s]
\* a module-level name that has not been assigned yet
Unbound == [isNone |-> TRUE, str |-> "<unbound>"]
UnboundLine == <<"<unbound>">>

(***************************************************************************)
(* str.lower() and str.strip() on the characters the input lines use.      *)
(***************************************************************************)
LowerChar(c) ==
    CASE c = "E" -> "e"
      [] c = "X" -> "x"
      [] c = "I" -> "i"
      [] c = "T" -> "t"
      [] c = "Q" -> "q"
      [] c = "U" -> "u"
      [] c = "H" -> "h"
      [] OTHER -> c

Lower(s) == [i \in 1..Len(s) |-> LowerChar(s[i])]

IsSpace(c) == c \in {" ", "\t"}

RECURSIVE LStrip(_)
LStrip(s) ==
    IF s # <<>> /\ IsSpace(Head(s)) THEN LStrip(Tail(s)) ELSE s

RECURSIVE RStrip(_)
RStrip(s) ==
    IF s # <<>> /\ IsSpace(s[Len(s)]) THEN RStrip(SubSeq(s, 1, Len(s) - 1)) ELSE s

Strip(s) == RStrip(LStrip(s))

(***************************************************************************)
(* The lines a user may type: a word with blanks around it.                *)
(***************************************************************************)
Pad(n) == [i \in 1..n |-> " "]

Words ==
    { <<>>,
      <<"\t">>,
      <<"e", "x", "i", "t">>,
      <<"Q", "U", "I", "T">>,
      <<"E", "x", "i", "t">>,
      <<"h", "i">> }

Lines ==
    { Pad(l) \o w \o Pad(r) :
        l \in 0..MaxPad, r \in 0..MaxPad, w \in Words }

(***************************************************************************)
(* The environment: os.getenv("GEMINI_API_KEY") after load_dotenv().       *)
(***************************************************************************)
EnvValues == { None, Str(""), Str("AIzaSyA-1") }

(***************************************************************************)
(* The request: the endpoint, the header and the JSON payload.             *)
(***************************************************************************)
UrlTemplate ==
    "https://generativelanguage.googleapis.com/v1beta/models/gemini-2.5-flash-preview-05-20:generateContent?key="

\* mutant: the endpoint carries a key written into the program
MakeApiUrl_hardcoded(key) == UrlTemplate \o "AIzaSyA-1"

\* the f-string of API_URL: the key is interpolated as it is
MakeApiUrl(key) == UrlTemplate \o key.str

SystemInstructionText ==
    "You are a helpful and intelligent AI assistant. Use Google Search to find information when needed to provide accurate and up-to-date responses."

Headers == [ContentType |-> "application/json"]

(***************************************************************************)
(* What requests.post can come back with: an exception of the transport,   *)
(* or a response with a status and a body.  A body is not JSON, or a JSON  *)
(* object that may hold "candidates": a list of candidates, each of which  *)
(* may hold "content", which may hold "parts": a list of parts, each of    *)
(* which may hold "text".                                                  *)
(***************************************************************************)
Texts == { "Hi there", "Bye" }

NoTextPart == [hasText |-> FALSE, text |-> ""]
TextPart(t) == [hasText |-> TRUE, text |-> t]
PartValues == { NoTextPart } \cup { TextPart(t) : t \in Texts }
\* the parts after the first one
FurtherParts == { NoTextPart, TextPart("Bye") }

RECURSIVE SeqsUpTo(_, _)
SeqsUpTo(S, n) ==
    IF n = 0 THEN { <<>> }
    ELSE LET shorter == SeqsUpTo(S, n - 1)
         IN  shorter \cup { Append(q, x) : q \in shorter, x \in S }

PartLists ==
    { <<>> } \cup
    { <<p>> \o rest : p \in PartValues, rest \in SeqsUpTo(FurtherParts, MaxParts - 1) }

NoContent == [hasContent |-> FALSE, hasParts |-> FALSE, parts |-> <<>>]
ContentNoParts == [hasContent |-> TRUE, hasParts |-> FALSE, parts |-> <<>>]
ContentParts(ps) == [hasContent |-> TRUE, hasParts |-> TRUE, parts |-> ps]
CandidateValues ==
    { NoContent, ContentNoParts } \cup { ContentParts(ps) : ps \in PartLists }
\* the candidates after the first one
FurtherCandidates == { NoContent, ContentParts(<< TextPart("Bye") >>) }

CandidateLists ==
    { <<>> } \cup
    { <<c>> \o rest :
        c \in CandidateValues, rest \in SeqsUpTo(FurtherCandidates, MaxCandidates - 1) }

NotJson == [isJson |-> FALSE, hasCandidates |-> FALSE, candidates |-> <<>>]
JsonNoCandidates == [isJson |-> TRUE, hasCandidates |-> FALSE, candidates |-> <<>>]
JsonCandidates(cs) == [isJson |-> TRUE, hasCandidates |-> TRUE, candidates |-> cs]
Bodies ==
    { NotJson, JsonNoCandidates } \cup { JsonCandidates(cs) : cs \in CandidateLists }

TransportErrors == { "ConnectionError", "Timeout" }
Statuses == { 200, 304, 404, 503 }

Failure(e) == [exc |-> e, status |-> 0, body |-> NotJson]
Reply(st, b) == [exc |-> "", status |-> st, body |-> b]
Outcomes ==
    { Failure(e) : e \in TransportErrors } \cup
    { Reply(st, b) : st \in Statuses, b \in Bodies }

(***************************************************************************)
(* get_ai_response: what it returns or raises for an outcome of the POST.  *)
(***************************************************************************)
FallbackText == "I'm sorry, I couldn't get a response from the AI."
ErrorText(e) == "An error occurred: " \o e

Returned(s) == [raised |-> FALSE, value |-> s]
Raised(e) == [raised |-> TRUE, value |-> e]

\* mutant: only server errors raise
StatusRaises_only5xx(st) == 500 <= st /\ st < 600

\* response.raise_for_status(): raises HTTPError for 4xx and 5xx
StatusRaises(st) == 400 <= st /\ st < 600

\* str(e) of the RequestException that was caught
DescribeTransportError(e) ==
    IF e = "Timeout" THEN "Read timed out." ELSE "Connection refused"

DescribeHTTPError(st, url) ==
    ToString(st) \o (IF st < 500 THEN " Client Error" ELSE " Server Error")
                 \o " for url: " \o url

\* response.json() on a body that is not JSON raises JSONDecodeError; whether
\* that is a RequestException depends on the installed requests release
JsonDecodeResults ==
    { Returned(ErrorText("Expecting value: line 1 column 1 (char 0)")),
      Raised("JSONDecodeError") }

\* mutant: the last part of the last candidate is taken
ExtractText_last(data) ==
    IF data.hasCandidates /\ Len(data.candidates) > 0
    THEN LET candidate == data.candidates[Len(data.candidates)]
         IN  IF ~candidate.hasContent
             THEN Raised("KeyError: 'content'")
             ELSE IF candidate.hasParts /\ Len(candidate.parts) > 0
                  THEN IF candidate.parts[Len(candidate.parts)].hasText
                       THEN Returned(candidate.parts[Len(candidate.parts)].text)
                       ELSE Raised("KeyError: 'text'")
                  ELSE Returned(FallbackText)
    ELSE Returned(FallbackText)

\* mutant: the lists are indexed without a look at their length
ExtractText_unchecked(data) ==
    IF data.hasCandidates
    THEN IF Len(data.candidates) = 0
         THEN Raised("IndexError")
         ELSE LET candidate == data.candidates[1]
              IN  IF ~candidate.hasContent
                  THEN Raised("KeyError: 'content'")
                  ELSE IF candidate.hasParts
                       THEN IF Len(candidate.parts) = 0
                            THEN Raised("IndexError")
                            ELSE IF candidate.parts[1].hasText
                                 THEN Returned(candidate.parts[1].text)
                                 ELSE Raised("KeyError: 'text'")
                       ELSE Returned(FallbackText)
    ELSE Returned(FallbackText)

\* mutant: every nested lookup is guarded
ExtractText_guarded(data) ==
    IF data.hasCandidates /\ Len(data.candidates) > 0
    THEN LET candidate == data.candidates[1]
         IN  IF /\ candidate.hasContent
                /\ candidate.hasParts
                /\ Len(candidate.parts) > 0
                /\ candidate.parts[1].hasText
             THEN Returned(candidate.parts[1].text)
             ELSE Returned(FallbackText)
    ELSE Returned(FallbackText)

\* lines 81-87: the lookups in the decoded body
ExtractText(data) ==
    IF data.hasCandidates /\ Len(data.candidates) > 0
    THEN LET candidate == data.candidates[1]
         IN  IF ~candidate.hasContent
             THEN Raised("KeyError: 'content'")
             ELSE IF candidate.hasParts /\ Len(candidate.parts) > 0
                  THEN IF candidate.parts[1].hasText
                       THEN Returned(candidate.parts[1].text)
                       ELSE Raised("KeyError: 'text'")
                  ELSE Returned(FallbackText)
    ELSE Returned(FallbackText)

\* lines 71-91: the try block and its except clause
GetAiResponseResults(o, url) ==
    IF o.exc # ""
    THEN { Returned(ErrorText(DescribeTransportError(o.exc))) }
    ELSE IF StatusRaises(o.status)
         THEN { Returned(ErrorText(DescribeHTTPError(o.status, url))) }
         ELSE IF ~o.body.isJson
              THEN JsonDecodeResults
              ELSE { ExtractText(o.body) }

(***************************************************************************)
(* The loop's two tests on the line that was read.                         *)
(***************************************************************************)
ExitWords == { <<"e", "x", "i", "t">>, <<"q", "u", "i", "t">> }

\* line 108: user_prompt.lower() in ["exit", "quit"]
IsExitCommand(line) == Lower(line) \in ExitWords

\* mutant: the line is tested without strip()
IsBlank_unstripped(line) == line = <<>>

\* line 112: not user_prompt.strip()
IsBlank(line) == Strip(line) = <<>>

\* mutant: the missing key goes unnoticed
KeyMissing_never(key) == FALSE

\* line 39: API_KEY is None
KeyMissing(key) == key = None

(***************************************************************************)
(* State.                                                                  *)
(***************************************************************************)
VARIABLES
    pc,           \* where the program is
    environ,      \* the value of GEMINI_API_KEY in the environment
    API_KEY,      \* module-level names
    API_URL,
    user_prompt,
    ai_response,
    request,      \* the request in flight: <<>> or <<request>>
    response,     \* the outcome of this turn's POST: <<>> or <<outcome>>
    out,          \* what was written to stdout since the last line was read
    exit_status,  \* <<>> while running, else <<status>> of the ended process
    uncaught,     \* the exception that ended the script, "" if none did
    turn,         \* lines read so far
    httpCount,    \* POSTs issued so far
    sentUrls,     \* the URLs the POSTs went to
    trace,        \* what the loop did since the last line was read
    sendable      \* lines read so far that were neither blank nor an exit command

vars ==
    << pc, environ, API_KEY, API_URL, user_prompt, ai_response, request,
       response, out, exit_status, uncaught, turn, httpCount, sentUrls, trace,
       sendable >>

Init ==
    /\ pc = "start"
    /\ environ \in EnvValues
    /\ API_KEY = Unbound
    /\ API_URL = ""
    /\ user_prompt = UnboundLine
    /\ ai_response = Unbound
    /\ request = <<>>
    /\ response = <<>>
    /\ out = <<>>
    /\ exit_status = <<>>
    /\ uncaught = ""
    /\ turn = 0
    /\ httpCount = 0
    /\ sentUrls = {}
    /\ trace = <<>>
    /\ sendable = 0

\* mutant: the previous reply is sent along with the prompt
Payload_withHistory(prompt) ==
    [ contents |->
        << [parts |-> << [text |-> prompt] >> \o
                      (IF ai_response = Unbound THEN <<>> ELSE << [text |-> ai_response.str] >>)] >>,
      tools |-> << "google_search" >>,
      systemInstruction |-> [parts |-> << [text |-> SystemInstructionText] >>] ]

\* the payload dictionary built by get_ai_response(prompt)
Payload(prompt) ==
    [ contents |-> << [parts |-> << [text |-> prompt] >>] >>,
      tools |-> << "google_search" >>,
      systemInstruction |-> [parts |-> << [text |-> SystemInstructionText] >>] ]

(***************************************************************************)
(* Start-up: lines 21-43.                                                  *)
(***************************************************************************)
\* API_KEY = get_api_key()
GetApiKey ==
    /\ pc = "start"
    /\ API_KEY' = environ
    /\ out' = IF environ = None
              THEN out \o << "Error: GEMINI_API_KEY not found in environment variables.",
                             "Please create a .env file and add GEMINI_API_KEY='your-api-key-here'" >>
              ELSE out
    /\ pc' = "module"
    /\ UNCHANGED << environ, API_URL, user_prompt, ai_response, request, response,
                    exit_status, uncaught, turn, httpCount, sentUrls, trace, sendable >>

\* lines 38-40 when the key is missing: exit(1)
ExitMissingKey ==
    /\ pc = "module"
    /\ KeyMissing(API_KEY)
    /\ out' = Append(out, "Using API Key: " \o API_KEY.str)
    /\ exit_status' = <<1>>
    /\ pc' = "exited"
    /\ UNCHANGED << environ, API_KEY, API_URL, user_prompt, ai_response, request,
                    response, uncaught, turn, httpCount, sentUrls, trace, sendable >>

\* lines 38-43 when the key is there: API_URL is built
SetApiUrl ==
    /\ pc = "module"
    /\ ~KeyMissing(API_KEY)
    /\ out' = Append(out, "Using API Key: " \o API_KEY.str)
    /\ API_URL' = MakeApiUrl(API_KEY)
    /\ pc' = "main"
    /\ UNCHANGED << environ, API_KEY, user_prompt, ai_response, request, response,
                    exit_status, uncaught, turn, httpCount, sentUrls, trace, sendable >>

\* lines 95-101: the banner
Banner ==
    /\ pc = "main"
    /\ out' = out \o << "Welcome! This is your AI agent powered by Gemini.",
                        "You can ask any question, and I'll search for the latest information to help you.",
                        "Ask me anything, and I'll do my best to provide a response.",
                        "Type 'exit' or 'quit' to end the conversation.",
                        "--------------------------------------------------" >>
    /\ pc' = "input"
    /\ UNCHANGED << environ, API_KEY, API_URL, user_prompt, ai_response, request,
                    response, exit_status, uncaught, turn, httpCount, sentUrls, trace,
                    sendable >>

(***************************************************************************)
(* The interactive loop: lines 103-121.                                    *)
(***************************************************************************)
\* line 105: input("You: ") returns a line
Input(line) ==
    /\ pc = "input"
    /\ turn < MaxTurns
    /\ out' = << "You: " >>
    /\ user_prompt' = line
    /\ turn' = turn + 1
    /\ trace' = <<>>
    /\ sendable' = sendable + (IF IsExitCommand(line) \/ IsBlank(line) THEN 0 ELSE 1)
    /\ pc' = "dispatch"
    /\ UNCHANGED << environ, API_KEY, API_URL, ai_response, request, response,
                    exit_status, uncaught, httpCount, sentUrls >>

\* line 105: input("You: ") meets end-of-file; EOFError is not caught
InputEOF ==
    /\ pc = "input"
    /\ out' = << "You: " >>
    /\ trace' = <<>>
    /\ uncaught' = "EOFError"
    /\ exit_status' = <<1>>
    /\ pc' = "crashed"
    /\ UNCHANGED << environ, API_KEY, API_URL, user_prompt, ai_response, request,
                    response, turn, httpCount, sentUrls, sendable >>

\* lines 108-110: an exit command ends the loop, and the script with it
ExitCommand ==
    /\ pc = "dispatch"
    /\ IsExitCommand(user_prompt)
    /\ out' = Append(out, "Goodbye!")
    /\ exit_status' = <<0>>
    /\ pc' = "exited"
    /\ UNCHANGED << environ, API_KEY, API_URL, user_prompt, ai_response, request,
                    response, uncaught, turn, httpCount, sentUrls, trace, sendable >>

\* lines 112-113: a blank line is skipped
BlankContinue ==
    /\ pc = "dispatch"
    /\ ~IsExitCommand(user_prompt)
    /\ IsBlank(user_prompt)
    /\ pc' = "input"
    /\ UNCHANGED << environ, API_KEY, API_URL, user_prompt, ai_response, request,
                    response, out, exit_status, uncaught, turn, httpCount, sentUrls,
                    trace, sendable >>

\* line 116
Thinking ==
    /\ pc = "dispatch"
    /\ ~IsExitCommand(user_prompt)
    /\ ~IsBlank(user_prompt)
    /\ out' = Append(out, "AI Agent: Thinking...")
    /\ trace' = Append(trace, "thinking")
    /\ pc' = "call"
    /\ UNCHANGED << environ, API_KEY, API_URL, user_prompt, ai_response, request,
                    response, exit_status, uncaught, turn, httpCount, sentUrls,
                    sendable >>

\* mutant: the request is sent a second time
Post_retry ==
    /\ pc = "call"
    /\ request' = << [url |-> API_URL, headers |-> Headers, data |-> Payload(user_prompt)] >>
    /\ httpCount' = httpCount + 2
    /\ sentUrls' = sentUrls \cup { API_URL }
    /\ trace' = trace \o << "post", "post" >>
    /\ pc' = "await"
    /\ UNCHANGED << environ, API_KEY, API_URL, user_prompt, ai_response, response,
                    out, exit_status, uncaught, turn, sendable >>

\* lines 117, 55-73: get_ai_response(user_prompt) builds the payload and posts it
Post ==
    /\ pc = "call"
    /\ request' = << [url |-> API_URL, headers |-> Headers, data |-> Payload(user_prompt)] >>
    /\ httpCount' = httpCount + 1
    /\ sentUrls' = sentUrls \cup { API_URL }
    /\ trace' = Append(trace, "post")
    /\ pc' = "await"
    /\ UNCHANGED << environ, API_KEY, API_URL, user_prompt, ai_response, response,
                    out, exit_status, uncaught, turn, sendable >>

\* lines 73-91, 117: the POST comes back; get_ai_response returns a string,
\* which is assigned to ai_response, or raises, which ends the script
Respond(o) ==
    /\ pc = "await"
    /\ response' = << o >>
    /\ request' = <<>>
    /\ \E r \in GetAiResponseResults(o, API_URL) :
          IF r.raised
          THEN /\ pc' = "crashed"
               /\ exit_status' = <<1>>
               /\ uncaught' = r.value
               /\ UNCHANGED ai_response
          ELSE /\ pc' = "returned"
               /\ ai_response' = Str(r.value)
               /\ UNCHANGED << exit_status, uncaught >>
    /\ UNCHANGED << environ, API_KEY, API_URL, user_prompt, out, turn, httpCount,
                    sentUrls, trace, sendable >>

\* line 120
PrintReply ==
    /\ pc = "returned"
    /\ out' = Append(out, "AI Agent: " \o ai_response.str \o "\n")
    /\ trace' = Append(trace, "reply")
    /\ pc' = "separator"
    /\ UNCHANGED << environ, API_KEY, API_URL, user_prompt, ai_response, request,
                    response, exit_status, uncaught, turn, httpCount, sentUrls,
                    sendable >>

\* line 121, and back to the top of the loop
PrintSeparator ==
    /\ pc = "separator"
    /\ out' = Append(out, "#####################################################\n")
    /\ trace' = Append(trace, "separator")
    /\ response' = <<>>
    /\ pc' = "input"
    /\ UNCHANGED << environ, API_KEY, API_URL, user_prompt, ai_response, request,
                    exit_status, uncaught, turn, httpCount, sentUrls, sendable >>

Next ==
    \/ GetApiKey
    \/ ExitMissingKey
    \/ SetApiUrl
    \/ Banner
    \/ \E line \in Lines : Input(line)
    \/ InputEOF
    \/ ExitCommand
    \/ BlankContinue
    \/ Thinking
    \/ Post
    \/ \E o \in Outcomes : Respond(o)
    \/ PrintReply
    \/ PrintSeparator

Spec == Init /\ [][Next]_vars

(***************************************************************************)
(* Vocabulary of the properties.                                           *)
(***************************************************************************)
Is2xx(o) == o.exc = "" /\ 200 <= o.status /\ o.status < 300
Is4xx5xx(o) == o.exc = "" /\ 400 <= o.status /\ o.status < 600

\* get_ai_response has returned in this turn and the script is still running
HasReturned == pc \in {"returned", "separator"} /\ exit_status = <<>>

ErrorDescriptions ==
    { DescribeTransportError(e) : e \in TransportErrors } \cup
    { DescribeHTTPError(st, UrlTemplate \o environ.str) : st \in Statuses } \cup
    { "Expecting value: line 1 column 1 (char 0)" }

IsErrorReply(r) ==
    ~r.isNone /\ \E d \in ErrorDescriptions : r.str = "An error occurred: " \o d

ReplyLine == "AI Agent: " \o ai_response.str \o "\n"
SeparatorLine == "#####################################################\n"

LastLine == IF out = <<>> THEN "" ELSE out[Len(out)]

GuidanceLine == "Please create a .env file and add GEMINI_API_KEY='your-api-key-here'"
Printed(l) == \E i \in 1..Len(out) : out[i] = l

InLoop == pc \in {"input", "dispatch", "call", "await", "returned", "separator"}

\* the first candidate of a JSON body that has one
HasFirstCandidate(o) ==
    o.body.isJson /\ o.body.hasCandidates /\ Len(o.body.candidates) > 0
FirstCandidate(o) == o.body.candidates[1]
HasFirstPart(o) ==
    /\ HasFirstCandidate(o)
    /\ FirstCandidate(o).hasContent
    /\ FirstCandidate(o).hasParts
    /\ Len(FirstCandidate(o).parts) > 0
FirstPart(o) == FirstCandidate(o).parts[1]

(***************************************************************************)
(* C1: without GEMINI_API_KEY in the environment the program prints the    *)
(* guidance and ends with status 1; no request is ever made and the loop   *)
(* is never entered.                                                       *)
(***************************************************************************)
C1_MissingKeyExits ==
    environ = None =>
        /\ pc \in {"start", "module", "exited"}
        /\ httpCount = 0 /\ request = <<>> /\ sentUrls = {} /\ turn = 0
        /\ pc # "start" => Printed(GuidanceLine)
        /\ pc = "exited" => exit_status = <<1>>
        /\ pc # "exited" => exit_status = <<>>

C1_Witness ==
    environ = None /\ pc = "exited" /\ exit_status = <<1>> /\ Printed(GuidanceLine)

(***************************************************************************)
(* C2: every line whose trimmed text is, in any letter case, "exit" or     *)
(* "quit" ends the program with the farewell and status 0, and no request  *)
(* is made for it.  (Fails: the loop compares the untrimmed line.)         *)
(***************************************************************************)
C2_TrimmedExitEndsLoop ==
    (turn > 0 /\ Lower(Strip(user_prompt)) \in ExitWords /\ pc # "dispatch") =>
        /\ pc = "exited"
        /\ exit_status = <<0>>
        /\ LastLine = "Goodbye!"
        /\ trace = <<>>

(***************************************************************************)
(* C3: a line that is empty or only whitespace leads back to the prompt    *)
(* with no call of get_ai_response and no request; a prompt handed to      *)
(* get_ai_response is never empty after trimming.                          *)
(***************************************************************************)
C3_BlankLineNotSent ==
    /\ (turn > 0 /\ Strip(user_prompt) = <<>>) =>
          /\ pc \in {"dispatch", "input", "crashed"}
          /\ pc = "crashed" => uncaught = "EOFError"
          /\ request = <<>> /\ response = <<>> /\ trace = <<>>
    /\ pc \in {"call", "await", "returned", "separator"} => Strip(user_prompt) # <<>>
    /\ request # <<>> => Strip(request[1].data.contents[1].parts[1].text) # <<>>

C3_Witness ==
    /\ pc = "input" /\ turn > 0
    /\ Len(user_prompt) > 0 /\ Strip(user_prompt) = <<>>
    /\ httpCount = 0

(***************************************************************************)
(* C4, as claimed: after an exchange that failed with a transport error or  *)
(* with any status outside 2xx, what get_ai_response returns is a string   *)
(* with an error description.  (Fails: raise_for_status raises for 4xx and *)
(* 5xx only, so a 3xx reply is decoded like a 2xx one.)                    *)
(***************************************************************************)
C4_NonSuccessGivesErrorText ==
    (response # <<>> /\ ~Is2xx(response[1]) /\ HasReturned) =>
        IsErrorReply(ai_response)

(***************************************************************************)
(* C4, amended: when the exchange fails with a transport error (network    *)
(* failure, timeout, connection error) or a 4xx or 5xx status,             *)
(* get_ai_response returns a string with an error description and does not *)
(* raise, the loop prints that string as the reply, and goes on to read    *)
(* the next line.                                                          *)
(***************************************************************************)
C4_FailedExchange ==
    response # <<>> /\ (response[1].exc # "" \/ Is4xx5xx(response[1]))

C4_FailureGivesErrorText ==
    /\ [](C4_FailedExchange =>
            /\ HasReturned
            /\ IsErrorReply(ai_response)
            /\ pc = "separator" => LastLine = ReplyLine)
    /\ [][(C4_FailedExchange /\ pc = "returned") => pc' = "separator"]_vars
    /\ [][(C4_FailedExchange /\ pc = "separator") =>
            (pc' = "input" /\ exit_status' = <<>>)]_vars

C4_Witness ==
    /\ pc = "separator"
    /\ response # <<>> /\ response[1].exc = "" /\ response[1].status = 404
    /\ IsErrorReply(ai_response)
    /\ LastLine = ReplyLine

(***************************************************************************)
(* C5: for a 2xx response whose first candidate has at least one content   *)
(* part (with a text), get_ai_response returns exactly the text of the     *)
(* first part of the first candidate, whatever further candidates and      *)
(* parts there are.                                                        *)
(***************************************************************************)
C5_FirstTextReturned ==
    (/\ response # <<>>
     /\ Is2xx(response[1])
     /\ HasFirstPart(response[1])
     /\ FirstPart(response[1]).hasText) =>
        HasReturned /\ ai_response = Str(FirstPart(response[1]).text)

C5_Witness ==
    /\ response # <<>>
    /\ Is2xx(response[1])
    /\ HasFirstPart(response[1])
    /\ Len(response[1].body.candidates) > 1
    /\ Len(FirstCandidate(response[1]).parts) > 1
    /\ FirstPart(response[1]) = TextPart("Hi there")
    /\ FirstCandidate(response[1]).parts[2] = TextPart("Bye")
    /\ pc = "returned"
    /\ ai_response = Str("Hi there")

(***************************************************************************)
(* C6: for a 2xx response with no "candidates" field, an empty candidates  *)
(* list, or a first candidate whose content has no parts, get_ai_response  *)
(* returns the fixed fallback string and does not raise.                   *)
(***************************************************************************)
C6_NoUsableReply(o) ==
    /\ o.body.isJson
    /\ \/ ~o.body.hasCandidates
       \/ Len(o.body.candidates) = 0
       \/ /\ FirstCandidate(o).hasContent
          /\ ~FirstCandidate(o).hasParts \/ Len(FirstCandidate(o).parts) = 0

C6_FallbackReturned ==
    (response # <<>> /\ Is2xx(response[1]) /\ C6_NoUsableReply(response[1])) =>
        HasReturned /\ ai_response = Str("I'm sorry, I couldn't get a response from the AI.")

C6_Witness ==
    /\ response # <<>>
    /\ Is2xx(response[1])
    /\ response[1].body.isJson
    /\ response[1].body.hasCandidates
    /\ response[1].body.candidates = <<>>
    /\ pc = "returned"
    /\ ai_response = Str(FallbackText)

(***************************************************************************)
(* C7: a line that is neither blank nor an exit command makes the loop     *)
(* print the thinking indicator, issue exactly one POST, print the reply   *)
(* after its label, print the separator and prompt again, in this order;   *)
(* the POSTs of a run are as many as such lines processed.                 *)
(***************************************************************************)
FullTurn == << "thinking", "post", "reply", "separator" >>

IsPrefix(a, b) == Len(a) <= Len(b) /\ a = SubSeq(b, 1, Len(a))

C8_OneEndpointWithKey ==
    /\ sentUrls \subseteq { UrlTemplate \o environ.str }
    /\ request # <<>> => request[1].url = UrlTemplate \o environ.str
    /\ (InLoop \/ httpCount > 0) =>
          /\ ~environ.isNone
          /\ API_KEY = environ
          /\ API_URL = UrlTemplate \o API_KEY.str

C8_Witness ==
    /\ httpCount = 2
    /\ request # <<>>
    /\ sentUrls = { UrlTemplate \o "AIzaSyA-1" }
    /\ API_KEY = Str("AIzaSyA-1")

(***************************************************************************)
(* C9: the request body of a turn holds that turn's prompt as its single   *)
(* content part, the google_search tool and the fixed, non-empty system    *)
(* instruction, and nothing of earlier prompts or replies.                 *)
(***************************************************************************)
C9_BodyFromPromptOnly ==
    request # <<>> =>
        LET data == request[1].data
        IN  /\ DOMAIN data = {"contents", "tools", "systemInstruction"}
            /\ Len(data.contents) = 1
            /\ DOMAIN data.contents[1] = {"parts"}
            /\ Len(data.contents[1].parts) = 1
            /\ data.contents[1].parts[1] = [text |-> user_prompt]
            /\ data.tools = << "google_search" >>
            /\ data.systemInstruction = [parts |-> << [text |-> SystemInstructionText] >>]
            /\ SystemInstructionText # ""

C9_Witness ==
    /\ request # <<>>
    /\ turn = 2 /\ httpCount = 2
    /\ ai_response = Str("Hi there")
    /\ request[1].data.contents[1].parts[1].text = << "h", "i" >>

(***************************************************************************)
(* C10: when the first candidate of a 2xx response lacks "content", or its *)
(* first part lacks "text", get_ai_response returns nothing: the KeyError  *)
(* leaves it uncaught and ends the loop, and no further line is read.      *)
(***************************************************************************)
C10_MalformedReply ==
    /\ response # <<>>
    /\ Is2xx(response[1])
    /\ HasFirstCandidate(response[1])
    /\ \/ ~FirstCandidate(response[1]).hasContent
       \/ HasFirstPart(response[1]) /\ ~FirstPart(response[1]).hasText

C10_StructuralErrorEndsLoop ==
    /\ [](C10_MalformedReply =>
            /\ pc = "crashed"
            /\ exit_status = <<1>>
            /\ uncaught \in {"KeyError: 'content'", "KeyError: 'text'"})
    /\ [][pc = "crashed" => (pc' = "crashed" /\ turn' = turn /\ httpCount' = httpCount)]_vars

C10_Witness ==
    /\ C10_MalformedReply
    /\ ~FirstCandidate(response[1]).hasContent
    /\ pc = "crashed"
    /\ uncaught = "KeyError: 'content'"
    /\ turn = 1

====
